---- MODULE Spec2Model ----
(***************************************************************************)
(* Model of the batch media compressor: the pipeline driver (main.rs), the *)
(* path helpers (file.rs), the image handlers (rgb_image.rs,               *)
(* rgba_image.rs) and the video encoding policy (video.rs).                *)
(*                                                                         *)
(* A path is a sequence of components; a component is a record             *)
(* [stem, ext] where ext is an optional sequence of one-character strings  *)
(* (what Path::extension returns).  The file system is two sets of         *)
(* normalised paths relative to the working directory: the regular files   *)
(* and the directories.                                                    *)
(***************************************************************************)
EXTENDS Integers, Sequences, FiniteSets, TLC

VARIABLES
    files,        \* regular files that exist (normalised paths)
    dirs,         \* directories that exist (normalised paths)
    corrupt,      \* files whose content no decoder accepts
    env,          \* [ffmpeg, ffprobe, descending]: the tools that can be spawned,
                  \* and the order in which directories list their entries
    output_dir,   \* AppArgs.output_dir, as path components
    force,        \* AppArgs.force
    explicit,     \* AppArgs.input_file (<<>> when not given)
    input_files,  \* main's input_files vector
    idx,          \* position of the for loop in input_files
    run,          \* which invocation of the program this is
    pc,           \* "init", "loop", "done", "panicked", or "lib"
    trace,        \* one record per loop iteration executed so far
    options,      \* a CompressionOptions value under construction
    nbuild,       \* number of builder calls applied to options
    vcall         \* the last direct call of a video function and its result

vars == <<files, dirs, corrupt, env, output_dir, force, explicit, input_files,
          idx, run, pc, trace, options, nbuild, vcall>>

----------------------------------------------------------------------------
(* Bounds of the model *)

\* Files in the initial tree.
MaxFiles == 2
\* Invocations of the program over the same root.
MaxRuns == 2
\* Builder calls applied to a CompressionOptions value.
MaxBuild == 1

----------------------------------------------------------------------------
(* Characters, strings as character sequences, Option *)

Range(s) == {s[i] : i \in DOMAIN s}

Upper == <<"A","B","C","D","E","F","G","H","I","J","K","L","M",
           "N","O","P","Q","R","S","T","U","V","W","X","Y","Z">>
Lower == <<"a","b","c","d","e","f","g","h","i","j","k","l","m",
           "n","o","p","q","r","s","t","u","v","w","x","y","z">>

LowerChar(c) ==
    IF \E i \in DOMAIN Upper : Upper[i] = c
    THEN Lower[CHOOSE i \in DOMAIN Upper : Upper[i] = c]
    ELSE c

MutNoLowercase(s) == s

\* str::to_lowercase
to_lowercase(s) == [i \in DOMAIN s |-> LowerChar(s[i])]

NoneExt == [some |-> FALSE, val |-> <<>>]
SomeExt(e) == [some |-> TRUE, val |-> e]
NoneStr == [some |-> FALSE, val |-> ""]
SomeStr(s) == [some |-> TRUE, val |-> s]

\* A path component with and without an extension.
FileName(stem, e) == [stem |-> stem, ext |-> SomeExt(e)]
Name(stem) == [stem |-> stem, ext |-> NoneExt]

CurDir == Name(".")
RootDir == Name("/")
\* The absolute path of the working directory.
CwdAbs == <<RootDir, Name("work")>>

IsAbsolute(p) == p # <<>> /\ p[1] = RootDir

DropFirst(p, n) == SubSeq(p, n + 1, Len(p))

\* The file-system key of a path: an absolute path loses the working
\* directory's prefix, a relative one its "." components.
Key(p) ==
    IF IsAbsolute(p)
    THEN DropFirst(p, Len(CwdAbs))
    ELSE SelectSeq(p, LAMBDA c : c # CurDir)

IsPrefix(a, b) == Len(a) <= Len(b) /\ SubSeq(b, 1, Len(a)) = a

\* Path::exists / fs::metadata(..).is_ok(): a file or a directory is there.
Exists(fs_files, fs_dirs, p) == Key(p) \in fs_files \cup fs_dirs

\* Path::extension
extension(p) == IF p = <<>> THEN NoneExt ELSE p[Len(p)].ext

\* Path::parent
parent(p) == SubSeq(p, 1, Len(p) - 1)

\* fs::create_dir_all: every missing ancestor is created; it fails when an
\* ancestor exists as a regular file.
CanCreateDirAll(fs_files, d) ==
    \A n \in 1..Len(Key(d)) : SubSeq(Key(d), 1, n) \notin fs_files

create_dir_all(fs_dirs, d) ==
    fs_dirs \cup {SubSeq(Key(d), 1, n) : n \in 0..Len(Key(d))}

\* File::create and the encoders' own open of the output: the parent must be
\* a directory and the path itself must not be one.
CanCreateFile(fs_files, fs_dirs, p) ==
    /\ p # <<>>
    /\ Key(parent(p)) \in fs_dirs
    /\ Key(p) \notin fs_dirs

----------------------------------------------------------------------------
(* video.rs: probe output parsing and the resize heuristic *)

Digits == <<"0","1","2","3","4","5","6","7","8","9">>
IsDigit(c) == \E i \in DOMAIN Digits : Digits[i] = c
DigitVal(c) == (CHOOSE i \in DOMAIN Digits : Digits[i] = c) - 1

IsWhite(c) == c \in {" ", "\n", "\r", "\t"}

\* str::trim: leading and trailing whitespace removed.
trim(s) ==
    LET keep == {i \in DOMAIN s : ~IsWhite(s[i])}
    IN  IF keep = {} THEN <<>>
        ELSE SubSeq(s, CHOOSE i \in keep : \A j \in keep : i <= j,
                       CHOOSE i \in keep : \A j \in keep : j <= i)

\* str::split(','): the pieces between the commas, at least one piece.
RECURSIVE split(_)
split(s) ==
    LET commas == {i \in DOMAIN s : s[i] = ","}
    IN  IF commas = {} THEN <<s>>
        ELSE LET k == CHOOSE i \in commas : \A j \in commas : i <= j
             IN  <<SubSeq(s, 1, k - 1)>> \o split(SubSeq(s, k + 1, Len(s)))

\* The value of a digit string.
RECURSIVE DecimalValue(_)
DecimalValue(ds) ==
    IF ds = <<>> THEN 0
    ELSE 10 * DecimalValue(SubSeq(ds, 1, Len(ds) - 1)) + DigitVal(ds[Len(ds)])

\* str::parse::<u32>: an optional "+" and at least one digit, nothing else.
\* (Every digit string of the model is shorter than ten digits, so the u32
\* range is never exceeded.)
parse_u32(s) ==
    LET body == IF s # <<>> /\ s[1] = "+" THEN Tail(s) ELSE s
    IN  IF body # <<>> /\ \A i \in DOMAIN body : IsDigit(body[i])
        THEN [ok |-> TRUE, val |-> DecimalValue(body)]
        ELSE [ok |-> FALSE, val |-> 0]

FullHDWidth == 1920
FullHDHeight == 1080
RatioLow == 1775
RatioHigh == 1781

MutTruncatedAspectRatio(width, height) ==
    IF height = 0 THEN -1
    ELSE (1000 * width) \div height

\* (width as f64 / height as f64 * 1000.0).round(), in thousandths; the code
\* divides the rounded value by 1000.0 and compares it with 1.775 and 1.781.
\* f64::round rounds half away from zero.  A zero height makes the quotient
\* infinite or NaN, which is in no band: -1 stands for that.
aspect_ratio(width, height) ==
    IF height = 0 THEN -1
    ELSE (2000 * width + height) \div (2 * height)

is_16_9(width, height) ==
    LET r == aspect_ratio(width, height)
    IN  r >= RatioLow /\ r <= RatioHigh

\* Lines 103-122 and 236-253: whether the probe output asks for the
\* downscale filter.
NeedsResize(probe_stdout) ==
    LET dimensions == split(trim(probe_stdout))
    IN  /\ Len(dimensions) = 2
        /\ parse_u32(dimensions[1]).ok
        /\ parse_u32(dimensions[2]).ok
        /\ LET width == parse_u32(dimensions[1]).val
               height == parse_u32(dimensions[2]).val
           IN  /\ is_16_9(width, height)
               /\ (width > FullHDWidth \/ height > FullHDHeight)

video_extensions ==
    { <<".","m","p","4">>, <<".","a","v","i">>, <<".","m","o","v">>,
      <<".","m","k","v">>, <<".","w","m","v">>, <<".","f","l","v">>,
      <<".","w","e","b","m">> }

\* Lines 62-69 of compress_video: the extension, lower-cased and dotted, is
\* one of video_extensions.
HasVideoExtension(p) ==
    /\ extension(p).some
    /\ (<<".">> \o to_lowercase(extension(p).val)) \in video_extensions

----------------------------------------------------------------------------
(* video.rs: compress_video and compress_video_with_options.               *)
(* A world w is [files, dirs, ffmpeg, ffprobe, probe_stdout, encode_ok]:   *)
(* the file system, whether each tool can be spawned, what the prober      *)
(* prints for the input, and whether the encoder exits with success.       *)
(* The result carries the new file system, whether the prober and the      *)
(* encoder were run, and the encoder's argument list, where "<input>" and  *)
(* "<output>" stand for the two paths.                                     *)

VideoResult(ret, w, new_dirs, new_files, probed, encoded, args) ==
    [ret |-> ret, dirs |-> new_dirs, files |-> new_files,
     probed |-> probed, encoded |-> encoded, args |-> args,
     dirs_before |-> w.dirs]

\* Lines 72-77 and 202-207: the output's parent directory tree.
ParentMissing(w, output_path) == ~Exists(w.files, w.dirs, parent(output_path))

DirsAfterPreparation(w, output_path) ==
    IF ParentMissing(w, output_path)
    THEN create_dir_all(w.dirs, parent(output_path))
    ELSE w.dirs

\* The encoder writes the output when it succeeds.
FilesAfterEncode(w, new_dirs, output_path) ==
    IF w.encode_ok /\ CanCreateFile(w.files, new_dirs, output_path)
    THEN w.files \cup {Key(output_path)}
    ELSE w.files

EncodeReturn(w, new_dirs, output_path) ==
    IF w.encode_ok /\ CanCreateFile(w.files, new_dirs, output_path)
    THEN "Ok" ELSE "EncodeFailed"

compress_video(input_path, output_path, crf, preset, w) ==
    IF ~Exists(w.files, w.dirs, input_path)
    THEN VideoResult("InputMissing", w, w.dirs, w.files, FALSE, FALSE, <<>>)
    ELSE IF ~HasVideoExtension(input_path)
    THEN VideoResult("UnsupportedFormat", w, w.dirs, w.files, FALSE, FALSE, <<>>)
    ELSE IF ParentMissing(w, output_path)
            /\ ~CanCreateDirAll(w.files, parent(output_path))
    THEN VideoResult("CreateDirFailed", w, w.dirs, w.files, FALSE, FALSE, <<>>)
    ELSE LET d == DirsAfterPreparation(w, output_path) IN
    IF ~w.ffmpeg
    THEN VideoResult("EncoderUnavailable", w, d, w.files, FALSE, FALSE, <<>>)
    ELSE IF ~w.ffprobe
    THEN VideoResult("ProbeFailed", w, d, w.files, TRUE, FALSE, <<>>)
    ELSE LET resize_filter ==
                 IF NeedsResize(w.probe_stdout)
                 THEN <<"-vf", "scale=1920:-2">> ELSE <<>>
             args == <<"-i", "<input>", "-c:v", "libx264", "-crf", crf,
                       "-preset", preset, "-c:a", "aac", "-b:a", "128k">>
                     \o resize_filter \o <<"-y", "<output>">>
         IN  VideoResult(EncodeReturn(w, d, output_path), w, d,
                         FilesAfterEncode(w, d, output_path), TRUE, TRUE, args)

\* Some(v) contributes the flag and its value, None nothing.
OptArg(flag, opt) == IF opt.some THEN <<flag, opt.val>> ELSE <<>>

\* Lines 296-301: each custom option's key, then its value unless empty.
RECURSIVE CustomArgs(_)
CustomArgs(custom_options) ==
    IF custom_options = <<>> THEN <<>>
    ELSE LET kv == Head(custom_options)
         IN  (IF kv[2] # "" THEN <<kv[1], kv[2]>> ELSE <<kv[1]>>)
             \o CustomArgs(Tail(custom_options))

MutProbeIgnoresResolution(opts) == opts.auto_resize_to_fullhd

\* Line 221: the prober is consulted only for this combination.
WantsProbe(opts) == opts.auto_resize_to_fullhd /\ ~opts.resolution.some

\* Lines 278-283: the resolution arguments.
ResolutionArgs(auto_resize, opts) ==
    IF auto_resize THEN <<"-vf", "scale=1920:-2">>
    ELSE OptArg("-s", opts.resolution)

\* Lines 257-304: the encoder's argument list.
OptionArgs(auto_resize, opts) ==
    <<"-i", "<input>", "-c:v", opts.video_codec>>
    \o OptArg("-crf", opts.crf)
    \o OptArg("-preset", opts.preset)
    \o OptArg("-b:v", opts.video_bitrate)
    \o ResolutionArgs(auto_resize, opts)
    \o OptArg("-c:a", opts.audio_codec)
    \o OptArg("-b:a", opts.audio_bitrate)
    \o CustomArgs(opts.custom_options)
    \o <<"-y", "<output>">>

compress_video_with_options(input_path, output_path, opts, w) ==
    IF ~Exists(w.files, w.dirs, input_path)
    THEN VideoResult("InputMissing", w, w.dirs, w.files, FALSE, FALSE, <<>>)
    ELSE IF ParentMissing(w, output_path)
            /\ ~CanCreateDirAll(w.files, parent(output_path))
    THEN VideoResult("CreateDirFailed", w, w.dirs, w.files, FALSE, FALSE, <<>>)
    ELSE LET d == DirsAfterPreparation(w, output_path) IN
    IF ~w.ffmpeg
    THEN VideoResult("EncoderUnavailable", w, d, w.files, FALSE, FALSE, <<>>)
    ELSE IF WantsProbe(opts) /\ ~w.ffprobe
    THEN VideoResult("ProbeFailed", w, d, w.files, TRUE, FALSE, <<>>)
    ELSE LET auto_resize == WantsProbe(opts) /\ NeedsResize(w.probe_stdout)
         IN  VideoResult(EncodeReturn(w, d, output_path), w, d,
                         FilesAfterEncode(w, d, output_path),
                         WantsProbe(opts), TRUE, OptionArgs(auto_resize, opts))

\* impl Default for CompressionOptions
DefaultOptions ==
    [video_codec |-> "libx264",
     crf |-> SomeStr("23"),
     preset |-> SomeStr("medium"),
     video_bitrate |-> NoneStr,
     resolution |-> NoneStr,
     audio_codec |-> SomeStr("aac"),
     audio_bitrate |-> SomeStr("128k"),
     custom_options |-> <<>>,
     auto_resize_to_fullhd |-> TRUE]

\* A struct literal with every optional field left out.
BareOptions ==
    [video_codec |-> "libx265",
     crf |-> NoneStr,
     preset |-> NoneStr,
     video_bitrate |-> NoneStr,
     resolution |-> NoneStr,
     audio_codec |-> NoneStr,
     audio_bitrate |-> NoneStr,
     custom_options |-> <<>>,
     auto_resize_to_fullhd |-> TRUE]

\* The builder methods of CompressionOptions, lines 379-431.
opt_crf(o, v) == [o EXCEPT !.crf = SomeStr(v)]
opt_preset(o, v) == [o EXCEPT !.preset = SomeStr(v)]
opt_video_codec(o, v) == [o EXCEPT !.video_codec = v]
opt_video_bitrate(o, v) == [o EXCEPT !.video_bitrate = SomeStr(v)]
opt_resolution(o, v) == [o EXCEPT !.resolution = SomeStr(v)]
opt_audio_codec(o, v) == [o EXCEPT !.audio_codec = SomeStr(v)]
opt_audio_bitrate(o, v) == [o EXCEPT !.audio_bitrate = SomeStr(v)]
opt_auto_resize_to_fullhd(o, b) == [o EXCEPT !.auto_resize_to_fullhd = b]
add_custom_option(o, k, v) ==
    [o EXCEPT !.custom_options = Append(@, <<k, v>>)]

----------------------------------------------------------------------------
(* Direct calls of the video functions: the inputs of VideoSpec *)

\* What the prober prints for a width and a height: "W,H" and a newline.
RECURSIVE Decimal(_)
Decimal(n) ==
    IF n < 10 THEN <<Digits[n + 1]>>
    ELSE Decimal(n \div 10) \o <<Digits[(n % 10) + 1]>>

ProbeLine(width, height) ==
    Decimal(width) \o <<",">> \o Decimal(height) \o <<"\n">>

Widths == {0, 1280, 1920, 1921, 2560, 3548, 3549, 3562, 3563, 3840, 4096}
Heights == {0, 720, 1080, 1081, 1200, 1440, 2000, 2160}

ProbeLines == {ProbeLine(width, height) : width \in Widths, height \in Heights}

\* Outputs that are not "W,H": nothing, text, a wrong separator, three
\* fields, inner blanks, a minus sign, a fraction, two streams.
OddProbeOutputs ==
    { <<>>,
      <<"N","/","A","\n">>,
      <<"3","8","4","0","x","2","1","6","0","\n">>,
      <<"3","8","4","0",",","2","1","6","0",",","1","\n">>,
      <<"3","8","4","0",","," ","2","1","6","0","\n">>,
      <<"-","3","8","4","0",",","2","1","6","0","\n">>,
      <<"3","8","4","0",".","0",",","2","1","6","0","\n">>,
      <<"3","8","4","0",",","2","1","6","0","\n",
        "3","8","4","0",",","2","1","6","0","\n">>,
      <<"3","8","4","0",",","\n">> }

\* Outputs with blanks around the pair or an explicit plus sign.
PaddedProbeOutputs ==
    { <<" ","3","8","4","0",",","2","1","6","0","\r","\n">>,
      <<"+","3","8","4","0",",","2","1","6","0","\n">> }

ProbeOutputs == ProbeLines \cup OddProbeOutputs \cup PaddedProbeOutputs

\* The outputs tried with compress_video_with_options, which shares
\* NeedsResize with compress_video.
ProbeSample ==
    { ProbeLine(3840, 2160), ProbeLine(1920, 1080), ProbeLine(1920, 1200),
      <<>>, <<"N","/","A","\n">> }

Mp4 == <<"m","p","4">>
VideoInputs ==
    { <<FileName("v", Mp4)>>, <<FileName("v", <<"M","K","V">>)>>,
      <<FileName("v", <<"t","x","t">>)>>, <<Name("v")>> }
VideoOutputs ==
    { <<FileName("out", Mp4)>>, <<Name("o"), Name("sub"), FileName("out", Mp4)>> }

NoCall ==
    [fn |-> "none", input |-> <<>>, output |-> <<>>, probe_stdout |-> <<>>,
     encode_ok |-> FALSE, opts |-> DefaultOptions,
     res |-> [ret |-> "none", dirs |-> {}, files |-> {}, probed |-> FALSE,
              encoded |-> FALSE, args |-> <<>>, dirs_before |-> {}]]

World(probe_stdout, encode_ok) ==
    [files |-> files, dirs |-> dirs, ffmpeg |-> env.ffmpeg,
     ffprobe |-> env.ffprobe, probe_stdout |-> probe_stdout,
     encode_ok |-> encode_ok]

PipelineIdle ==
    /\ corrupt = {}
    /\ output_dir = <<>>
    /\ force = FALSE
    /\ explicit = <<>>
    /\ input_files = <<>>
    /\ idx = 0
    /\ run = 0
    /\ trace = <<>>

VideoInit ==
    /\ PipelineIdle
    /\ pc = "lib"
    /\ \E blocked \in BOOLEAN, present \in BOOLEAN, prepared \in BOOLEAN :
        /\ files = (IF present THEN VideoInputs ELSE {})
                   \cup (IF blocked THEN {<<Name("o")>>} ELSE {})
        /\ dirs = {<<>>} \cup (IF prepared /\ ~blocked
                               THEN {<<Name("o")>>, <<Name("o"), Name("sub")>>}
                               ELSE {})
    /\ env \in [ffmpeg : BOOLEAN, ffprobe : BOOLEAN, descending : {FALSE}]
    /\ options \in {DefaultOptions, BareOptions}
    /\ nbuild = 0
    /\ vcall = NoCall

Unbuilt == <<files, dirs, corrupt, env, output_dir, force, explicit,
             input_files, idx, run, pc, trace, vcall>>

CanBuild == pc = "lib" /\ vcall.fn = "none" /\ nbuild < MaxBuild

Build(o) == CanBuild /\ options' = o /\ nbuild' = nbuild + 1 /\ UNCHANGED Unbuilt

BuildCrf == Build(opt_crf(options, "28"))
BuildPreset == Build(opt_preset(options, "slow"))
BuildVideoCodec == Build(opt_video_codec(options, "libx265"))
BuildVideoBitrate == Build(opt_video_bitrate(options, "1M"))
BuildResolution == Build(opt_resolution(options, "1280x720"))
BuildAudioCodec == Build(opt_audio_codec(options, "copy"))
BuildAudioBitrate == Build(opt_audio_bitrate(options, "96k"))
BuildAutoResize == \E b \in BOOLEAN : Build(opt_auto_resize_to_fullhd(options, b))
BuildCustomOption ==
    \E kv \in {<<"-an", "">>, <<"-s", "640x360">>, <<"-vf", "hflip">>} :
        Build(add_custom_option(options, kv[1], kv[2]))

Uncalled == <<corrupt, env, output_dir, force, explicit, input_files, idx,
              run, pc, trace, options, nbuild>>

\* compress_video takes no options: it is called where none was chosen.
CallCompressVideo ==
    /\ pc = "lib" /\ vcall.fn = "none"
    /\ options = DefaultOptions /\ nbuild = 0
    /\ \E input \in VideoInputs, output \in VideoOutputs,
          probe_stdout \in ProbeOutputs, encode_ok \in BOOLEAN :
        LET res == compress_video(input, output, "23", "medium",
                                  World(probe_stdout, encode_ok))
        IN  /\ vcall' = [fn |-> "compress_video", input |-> input,
                         output |-> output, probe_stdout |-> probe_stdout,
                         encode_ok |-> encode_ok, opts |-> DefaultOptions,
                         res |-> res]
            /\ files' = res.files
            /\ dirs' = res.dirs
    /\ UNCHANGED Uncalled

CallCompressVideoWithOptions ==
    /\ pc = "lib" /\ vcall.fn = "none"
    /\ \E input \in VideoInputs, output \in VideoOutputs,
          probe_stdout \in ProbeSample, encode_ok \in BOOLEAN :
        LET res == compress_video_with_options(input, output, options,
                                               World(probe_stdout, encode_ok))
        IN  /\ vcall' = [fn |-> "compress_video_with_options", input |-> input,
                         output |-> output, probe_stdout |-> probe_stdout,
                         encode_ok |-> encode_ok, opts |-> options,
                         res |-> res]
            /\ files' = res.files
            /\ dirs' = res.dirs
    /\ UNCHANGED Uncalled

VideoNext ==
    \/ BuildCrf
    \/ BuildPreset
    \/ BuildVideoCodec
    \/ BuildVideoBitrate
    \/ BuildResolution
    \/ BuildAudioCodec
    \/ BuildAudioBitrate
    \/ BuildAutoResize
    \/ BuildCustomOption
    \/ CallCompressVideo
    \/ CallCompressVideoWithOptions

VideoSpec == VideoInit /\ [][VideoNext]_vars

----------------------------------------------------------------------------
(* file.rs *)

Children(fs_files, fs_dirs, d) ==
    {p \in fs_files \cup fs_dirs : p # <<>> /\ parent(p) = d}

\* fs::read_dir yields a directory's entries in an order the platform picks.
\* The model lists them by name, along Collation or against it (names that
\* Collation lacks come first); which of the two is part of the environment.
Collation ==
    << FileName("a", <<"J","P","G">>), FileName("a", <<"j","p","g">>),
       FileName("a", <<"m","o","v">>), FileName("a", <<"m","p","4">>),
       FileName("a", <<"p","n","g">>), Name("compress"), Name("sub") >>

Rank(c) ==
    IF \E i \in DOMAIN Collation : Collation[i] = c
    THEN CHOOSE i \in DOMAIN Collation : Collation[i] = c
    ELSE 0

RECURSIVE Listed(_, _)
Listed(S, descending) ==
    IF S = {} THEN <<>>
    ELSE LET first == CHOOSE x \in S : \A y \in S :
                          IF descending
                          THEN Rank(x[Len(x)]) >= Rank(y[Len(y)])
                          ELSE Rank(x[Len(x)]) <= Rank(y[Len(y)])
         IN  <<first>> \o Listed(S \ {first}, descending)

RECURSIVE Flatten(_)
Flatten(ss) == IF ss = <<>> THEN <<>> ELSE Head(ss) \o Flatten(Tail(ss))

\* get_files(dir): the files below dir, "dir/name" each, a directory's files
\* in the place of the directory.  d is the directory's key, prefix the path
\* it was given as.
RECURSIVE get_files(_, _, _, _, _)
get_files(fs_files, fs_dirs, d, prefix, descending) ==
    LET entries == Listed(Children(fs_files, fs_dirs, d), descending)
    IN  Flatten([i \in DOMAIN entries |->
            LET path == prefix \o <<entries[i][Len(entries[i])]>>
            IN  IF entries[i] \in fs_files THEN <<path>>
                ELSE get_files(fs_files, fs_dirs, entries[i], path, descending)])

\* get_absolute_path: fs::canonicalize(..).unwrap() fails on a missing path.
CanCanonicalize(fs_files, fs_dirs, p) == Exists(fs_files, fs_dirs, p)
get_absolute_path(p) == CwdAbs \o Key(p)

\* get_relative_path: to.strip_prefix(from).unwrap() compares components.
CanStripPrefix(from, to) == IsPrefix(from, to)
get_relative_path(from, to) == DropFirst(to, Len(from))

----------------------------------------------------------------------------
(* main.rs: the pieces of the loop body *)

\* Line 43: filepath.contains("/<output_dir>/").  The needle starts and ends
\* with a separator, so it matches whole components that have a component
\* before them and one after.
IsCompressed(filepath, out_dir) ==
    \E i \in 2..Len(filepath) :
        /\ i + Len(out_dir) - 1 < Len(filepath)
        /\ \A k \in 1..Len(out_dir) : filepath[i + k - 1] = out_dir[k]

\* PathBuf::push of a relative path.
push(base, rel) == IF IsAbsolute(rel) THEN rel ELSE base \o rel

MutSetExtensionNoop(p, e) == p

\* PathBuf::set_extension
set_extension(p, e) == [p EXCEPT ![Len(p)].ext = SomeExt(e)]

Png == <<"p","n","g">>
Jpg == <<"j","p","g">>
Jpeg == <<"j","p","e","g">>

\* video::is_match_extension: the dotted lower-cased extension is a video one.
is_match_extension(filepath) == HasVideoExtension(filepath)

\* Lines 53-80: which handler the extension selects.
Dispatch(input_file, filepath) ==
    IF ~extension(input_file).some THEN "none"
    ELSE LET ext == to_lowercase(extension(input_file).val)
         IN  IF ext = Png THEN "rgba"
             ELSE IF ext = Jpg \/ ext = Jpeg THEN "rgb"
             ELSE IF is_match_extension(filepath) THEN "video"
             ELSE "none"

TargetExtension(handler) ==
    IF handler = "rgba" THEN Png
    ELSE IF handler = "rgb" THEN Jpg
    ELSE Mp4

MutSkipIgnoresForce(fs_files, fs_dirs, output_path, frc) ==
    Exists(fs_files, fs_dirs, output_path)

\* Lines 59, 66, 73: fs::metadata(&output_path).is_ok() && !args.force
ShouldSkip(fs_files, fs_dirs, output_path, frc) ==
    Exists(fs_files, fs_dirs, output_path) /\ ~frc

----------------------------------------------------------------------------
(* The handlers.  Each result is [step, files, dirs, write_attempted]. *)

Decodable(fs_files, bad, p) == Key(p) \in fs_files /\ Key(p) \notin bad

Handled(step, new_files, new_dirs, write_attempted) ==
    [step |-> step, files |-> new_files, dirs |-> new_dirs,
     write_attempted |-> write_attempted]

\* rgba_image::path2compress: oxipng's optimize reads the input, optimises
\* and writes the output; its Result is dropped.
rgba_path2compress(path, output_path, fs_files, fs_dirs, bad) ==
    IF ~Decodable(fs_files, bad, path)
    THEN Handled("encode_failed", fs_files, fs_dirs, FALSE)
    ELSE IF ~CanCreateFile(fs_files, fs_dirs, output_path)
    THEN Handled("encode_failed", fs_files, fs_dirs, TRUE)
    ELSE Handled("encoded", fs_files \cup {Key(output_path)}, fs_dirs, TRUE)

\* rgb_image::path2compress and compress: image::open(..).unwrap(), then
\* File::create(..).unwrap().
rgb_path2compress(path, output_path, fs_files, fs_dirs, bad) ==
    IF ~Decodable(fs_files, bad, path)
    THEN Handled("panic_decode", fs_files, fs_dirs, FALSE)
    ELSE IF ~CanCreateFile(fs_files, fs_dirs, output_path)
    THEN Handled("panic_create", fs_files, fs_dirs, TRUE)
    ELSE Handled("encoded", fs_files \cup {Key(output_path)}, fs_dirs, TRUE)

VideoCrf == "23"
VideoPreset == "medium"

\* video::path2compress: compress_video, its Result reported and dropped.
video_path2compress(path, output_path, w) ==
    LET res == compress_video(path, output_path, VideoCrf, VideoPreset, w)
    IN  Handled(IF res.ret = "Ok" THEN "encoded" ELSE "encode_failed",
                res.files, res.dirs, res.encoded)

----------------------------------------------------------------------------
(* main.rs: one iteration of the loop, lines 38-81 *)

Entry(input, step, handler, out, out_kind, write_attempted, parent_ready, wrote) ==
    [run |-> run, input |-> input, step |-> step, handler |-> handler,
     out |-> out, out_kind |-> out_kind, write_attempted |-> write_attempted,
     parent_ready |-> parent_ready, wrote |-> wrote]

Unhandled(input, step) ==
    [entry |-> Entry(input, step, "none", <<>>, "n/a", FALSE, FALSE, FALSE),
     files |-> files, dirs |-> dirs]

KindAt(fs_files, fs_dirs, p) ==
    IF Key(p) \in fs_files THEN "file"
    ELSE IF Key(p) \in fs_dirs THEN "dir"
    ELSE "absent"

LoopBody(input_file, probe_stdout) ==
    IF IsCompressed(input_file, output_dir)
    THEN Unhandled(input_file, "excluded")
    ELSE IF ~CanCanonicalize(files, dirs, input_file)
    THEN Unhandled(input_file, "panic_canonicalize")
    ELSE IF ~CanStripPrefix(<<CurDir>>, input_file)
    THEN Unhandled(input_file, "panic_relative")
    ELSE
    LET filepath == get_absolute_path(input_file)
        relative_path == get_relative_path(<<CurDir>>, input_file)
        handler == Dispatch(input_file, filepath)
    IN  IF ~extension(input_file).some
        THEN Unhandled(input_file, "no_extension")
        ELSE IF handler = "none"
        THEN Unhandled(input_file, "unsupported")
        ELSE
        LET output_path == set_extension(push(output_dir, relative_path),
                                         TargetExtension(handler))
            out_kind == KindAt(files, dirs, output_path)
        IN  IF ShouldSkip(files, dirs, output_path, force)
            THEN [entry |-> Entry(input_file, "skipped", handler, output_path,
                                  out_kind, FALSE, FALSE, FALSE),
                  files |-> files, dirs |-> dirs]
            ELSE
            LET w == [files |-> files, dirs |-> dirs, ffmpeg |-> env.ffmpeg,
                      ffprobe |-> env.ffprobe, probe_stdout |-> probe_stdout,
                      encode_ok |-> Decodable(files, corrupt, filepath)]
                h == IF handler = "rgba"
                     THEN rgba_path2compress(filepath, output_path,
                                             files, dirs, corrupt)
                     ELSE IF handler = "rgb"
                     THEN rgb_path2compress(filepath, output_path,
                                            files, dirs, corrupt)
                     ELSE video_path2compress(filepath, output_path, w)
            IN  [entry |-> Entry(input_file, h.step, handler, output_path,
                                 out_kind, h.write_attempted,
                                 Key(parent(output_path)) \in h.dirs,
                                 h.step = "encoded"),
                 files |-> h.files, dirs |-> h.dirs]

Panics == {"panic_canonicalize", "panic_relative", "panic_decode", "panic_create"}

----------------------------------------------------------------------------
(* The program run over a tree, once and again *)

Unstarted == <<corrupt, env, output_dir, force, explicit, run, trace,
               options, nbuild, vcall>>

\* Lines 28-36: the inputs are the explicit ones or the walk of ".", then
\* the output directory is created.
Start ==
    /\ pc = "init"
    /\ input_files' = IF Len(explicit) = 0
                       THEN get_files(files, dirs, <<>>, <<CurDir>>, env.descending)
                       ELSE explicit
    /\ IF CanCreateDirAll(files, output_dir)
       THEN dirs' = create_dir_all(dirs, output_dir) /\ pc' = "loop"
       ELSE dirs' = dirs /\ pc' = "panicked"
    /\ idx' = 1
    /\ files' = files
    /\ UNCHANGED Unstarted

PipelineProbes == {ProbeLine(3840, 2160), <<>>}

Iterate ==
    /\ pc = "loop"
    /\ idx <= Len(input_files)
    /\ \E probe_stdout \in PipelineProbes :
          LET r == LoopBody(input_files[idx], probe_stdout)
          IN  /\ trace' = Append(trace, r.entry)
              /\ files' = r.files
              /\ dirs' = r.dirs
              /\ pc' = IF r.entry.step \in Panics THEN "panicked" ELSE "loop"
    /\ idx' = idx + 1
    /\ UNCHANGED <<corrupt, env, output_dir, force, explicit, input_files,
                   run, options, nbuild, vcall>>

\* The loop is over and main returns.
Exit ==
    /\ pc = "loop"
    /\ idx > Len(input_files)
    /\ pc' = "done"
    /\ UNCHANGED <<files, dirs, corrupt, env, output_dir, force, explicit,
                   input_files, idx, run, trace, options, nbuild, vcall>>

\* The program is started again over the same root with the same arguments.
Rerun ==
    /\ pc = "done"
    /\ run < MaxRuns
    /\ run' = run + 1
    /\ pc' = "init"
    /\ UNCHANGED <<files, dirs, corrupt, env, output_dir, force, explicit,
                   input_files, idx, trace, options, nbuild, vcall>>

Next == Start \/ Iterate \/ Exit \/ Rerun

----------------------------------------------------------------------------
(* Initial trees *)

Sub == Name("sub")
Compress == Name("compress")

OutputDirs == {<<Compress>>, <<CurDir, Compress>>}

\* Media files in the root and in a subdirectory, and a PNG in the output
\* directory and in a directory that merely shares its name.
TreeNames ==
    {FileName("a", <<"J","P","G">>), FileName("a", Png),
     FileName("a", <<"m","o","v">>)}

TreeFiles ==
    {d \o <<n>> : d \in {<<>>, <<Sub>>}, n \in TreeNames}
    \cup {<<Compress, FileName("a", Png)>>, <<Sub, Compress, FileName("a", Png)>>}

Ancestors(S) == UNION {{SubSeq(p, 1, n) : n \in 0..(Len(p) - 1)} : p \in S}

\* Directories that may be there beforehand: an output subdirectory, and a
\* directory where an output file would go.
ExtraDirs == {{}, {<<Compress, Sub>>}, {<<Compress, FileName("a", Png)>>}}

\* The tools are installed together or not at all.
Environments ==
    {[ffmpeg |-> t, ffprobe |-> t, descending |-> o] : t \in BOOLEAN, o \in BOOLEAN}

VideoIdle == options = DefaultOptions /\ nbuild = 0 /\ vcall = NoCall

ProgramAtStart ==
    /\ VideoIdle
    /\ pc = "init"
    /\ run = 1
    /\ input_files = <<>>
    /\ idx = 0
    /\ trace = <<>>

\* A tree of at most MaxFiles files, walked from ".".
InitWalk ==
    /\ ProgramAtStart
    /\ files \in {S \in SUBSET TreeFiles : Cardinality(S) <= MaxFiles}
    /\ \E extra \in ExtraDirs :
          dirs = Ancestors(files) \cup Ancestors(extra) \cup extra \cup {<<>>}
    /\ corrupt \in {S \in SUBSET files : Cardinality(S) <= 1}
    /\ env \in Environments
    /\ output_dir \in OutputDirs
    /\ force \in BOOLEAN
    /\ explicit = <<>>

\* Input files named on the command line: with a leading "./", without it,
\* or naming a file that is not there.
LooseFiles == {d \o <<n>> : d \in {<<>>, <<Sub>>, <<Compress>>},
                            n \in {FileName("a", <<"J","P","G">>), FileName("a", Png)}}

Spellings(S) ==
    {<<CurDir>> \o p : p \in S} \cup S \cup {<<CurDir, FileName("gone", Jpg)>>}

InitExplicit ==
    /\ ProgramAtStart
    /\ files \in {S \in SUBSET LooseFiles : Cardinality(S) \in 1..MaxFiles}
    /\ \E extra \in {{}, {<<Compress, Sub>>}} :
          dirs = Ancestors(files) \cup Ancestors(extra) \cup extra \cup {<<>>}
    /\ corrupt = {}
    /\ env = [ffmpeg |-> TRUE, ffprobe |-> TRUE, descending |-> FALSE]
    /\ output_dir = <<Compress>>
    /\ force \in BOOLEAN
    /\ explicit \in {s \in UNION {[1..n -> Spellings(files)] : n \in 1..MaxFiles} :
                        \A i, j \in DOMAIN s : i # j => s[i] # s[j]}

UpperChar(c) ==
    IF \E i \in DOMAIN Lower : Lower[i] = c
    THEN Upper[CHOOSE i \in DOMAIN Lower : Lower[i] = c]
    ELSE c

\* Every spelling of a lower-case extension in upper and lower case letters.
CaseVariants(e) ==
    {[i \in DOMAIN e |-> IF m[i] THEN UpperChar(e[i]) ELSE e[i]] :
        m \in [DOMAIN e -> BOOLEAN]}

SupportedExtensions ==
    { Jpg, Jpeg, Png, Mp4, <<"m","o","v">>, <<"a","v","i">>, <<"m","k","v">>,
      <<"w","e","b","m">>, <<"w","m","v">>, <<"f","l","v">> }

OtherExtensions ==
    { <<"t","x","t">>, <<"T","X","T">>, <<"g","i","f">>, <<"m","p","3">>,
      <<"j","p">>, <<"p","n","g","x">>, <<"m","p","4","v">>, <<>> }

\* One file in the root, under any of these names.
InitExtension ==
    /\ ProgramAtStart
    /\ \E n \in {FileName("b", e) :
                    e \in UNION {CaseVariants(x) : x \in SupportedExtensions}
                          \cup OtherExtensions} \cup {Name("b")} :
          files = {<<n>>}
    /\ dirs = {<<>>}
    /\ corrupt \in SUBSET files
    /\ env \in Environments
    /\ output_dir = <<Compress>>
    /\ force \in BOOLEAN
    /\ explicit = <<>>

Init == InitWalk \/ InitExplicit \/ InitExtension

Spec == Init /\ [][Next]_vars

----------------------------------------------------------------------------
(* Properties of the video functions, checked under VideoSpec *)

HasPair(args, flag, value) ==
    \E i \in 1..(Len(args) - 1) : args[i] = flag /\ args[i + 1] = value

HasFlag(args, flag) == \E i \in DOMAIN args : args[i] = flag

HasScaleFilter(args) == HasPair(args, "-vf", "scale=1920:-2")

\* width / height rounded to three decimals lies in [1.775, 1.781], that is
\* 1.7745 <= width / height < 1.7815.
RatioInBand(width, height) ==
    /\ 3549 * height <= 2000 * width
    /\ 2000 * width < 3563 * height

\* The last call consulted the prober and went on to the encoder.
ProbedAndEncoded ==
    /\ vcall.res.encoded
    /\ \/ vcall.fn = "compress_video"
       \/ vcall.fn = "compress_video_with_options" /\ WantsProbe(vcall.opts)

FilterOf(width, height) ==
    vcall.probe_stdout = ProbeLine(width, height) /\ ProbedAndEncoded
        => HasScaleFilter(vcall.res.args)

NoFilterOf(width, height) ==
    vcall.probe_stdout = ProbeLine(width, height) /\ ProbedAndEncoded
        => ~HasScaleFilter(vcall.res.args)

\* C7: for every probed pair of positive integers the encoder's arguments
\* hold "-vf scale=1920:-2" exactly when width/height rounded to three
\* decimals is in [1.775, 1.781] and the frame exceeds 1920x1080 in width or
\* height; 1920x1080 and 1920x1200 get no filter, 3840x2160 gets it; and a
\* probe output that is not two comma-separated unsigned integers leads to
\* an encode with no filter and no error of its own.
C7_ResizeHeuristic ==
    /\ \A width \in Widths \ {0}, height \in Heights \ {0} :
          vcall.probe_stdout = ProbeLine(width, height) /\ ProbedAndEncoded
          => (HasScaleFilter(vcall.res.args)
                <=> /\ RatioInBand(width, height)
                    /\ (width > 1920 \/ height > 1080))
    /\ NoFilterOf(1920, 1080)
    /\ NoFilterOf(1920, 1200)
    /\ FilterOf(3840, 2160)
    /\ vcall.probe_stdout \in OddProbeOutputs /\ vcall.res.probed /\ env.ffprobe
          => /\ vcall.res.encoded
             /\ ~HasScaleFilter(vcall.res.args)
             /\ vcall.res.ret \in {"Ok", "EncodeFailed"}
             /\ (vcall.encode_ok => vcall.res.ret = "Ok")

C7_Witness ==
    /\ vcall.fn = "compress_video"
    /\ vcall.probe_stdout = ProbeLine(3549, 2000)
    /\ vcall.res.ret = "Ok"
    /\ HasScaleFilter(vcall.res.args)

\* C8: when ffmpeg cannot be invoked, the video functions return the
\* encoder-unavailable error without having run the prober or the encoder
\* and without having created the output's parent directory.
C8_ToolAbsence ==
    vcall.res.ret = "EncoderUnavailable"
        => /\ ~vcall.res.probed
           /\ ~vcall.res.encoded
           /\ vcall.res.dirs = vcall.res.dirs_before

IsOptionsCall == vcall.fn = "compress_video_with_options"

C10_Common ==
    /\ IsOptionsCall /\ vcall.res.probed
          => vcall.opts.auto_resize_to_fullhd /\ ~vcall.opts.resolution.some
    /\ IsOptionsCall /\ HasScaleFilter(vcall.res.args)
          => vcall.opts.auto_resize_to_fullhd /\ ~vcall.opts.resolution.some
    /\ IsOptionsCall /\ vcall.res.encoded /\ vcall.opts.resolution.some
          => /\ HasPair(vcall.res.args, "-s", vcall.opts.resolution.val)
             /\ ~HasScaleFilter(vcall.res.args)
    /\ DefaultOptions.auto_resize_to_fullhd
    /\ DefaultOptions.video_codec = "libx264"

\* C10 as stated: the prober runs and the scale filter is added only with
\* auto_resize_to_fullhd and no resolution; a given resolution is passed as
\* "-s" and never with the filter; no argument list holds both "-vf" and
\* "-s"; the default options enable auto-resize with libx264.
C10_Original ==
    /\ C10_Common
    /\ IsOptionsCall
          => ~(HasFlag(vcall.res.args, "-vf") /\ HasFlag(vcall.res.args, "-s"))

CustomKeys(opts) == {opts.custom_options[i][1] : i \in DOMAIN opts.custom_options}

\* C10 (amended): as above, but an argument list is free of the pair "-vf"
\* and "-s" only when custom_options names neither flag.
C10_ResolutionOverrides ==
    /\ C10_Common
    /\ IsOptionsCall /\ CustomKeys(vcall.opts) \cap {"-vf", "-s"} = {}
          => ~(HasFlag(vcall.res.args, "-vf") /\ HasFlag(vcall.res.args, "-s"))

C10_Witness ==
    /\ IsOptionsCall
    /\ vcall.opts.resolution.some
    /\ vcall.opts.auto_resize_to_fullhd
    /\ vcall.probe_stdout = ProbeLine(3840, 2160)
    /\ vcall.res.ret = "Ok"
    /\ HasPair(vcall.res.args, "-s", "1280x720")

----------------------------------------------------------------------------
(* Properties of the pipeline, checked under Spec *)

Entries == Range(trace)

\* The iteration reached the match on the extension.
ReachedMatch(e) ==
    e.step \notin {"excluded", "panic_canonicalize", "panic_relative"}

\* The iteration selected a handler and came to the skip test.
Decided(e) == e.handler # "none"

\* The iteration called its handler.
Invoked(e) ==
    e.step \in {"encoded", "encode_failed", "panic_decode", "panic_create"}

\* C1: after a complete run without force, a second run without force over
\* the same root invokes no encoder and writes no file.
C1_IdempotentRerun ==
    \A e \in Entries : ~force /\ e.run >= 2 => ~Invoked(e) /\ ~e.wrote

\* The path lies inside the output directory's subtree.
InsideOutput(p) ==
    /\ IsPrefix(Key(output_dir), Key(p))
    /\ Len(Key(p)) > Len(Key(output_dir))

\* C2: a candidate input inside the output directory's subtree is skipped
\* and never handed to an encoder, and a candidate outside it is never
\* skipped by the exclusion rule.
C2_Exclusion ==
    \A e \in Entries :
        /\ InsideOutput(e.input) => e.step = "excluded" /\ ~Invoked(e)
        /\ e.step = "excluded" => InsideOutput(e.input)

\* C3: a failure while processing one file is confined to that file: the
\* loop still reaches every later file of the list, so the run never ends
\* with files left unprocessed.
C3_BatchContinuation == pc = "panicked" => idx > Len(input_files)

\* C4 as stated: a supported input is skipped exactly when its output path
\* exists as a file and force is off; otherwise its encoder is invoked.
C4_Original ==
    \A e \in Entries : Decided(e) =>
        /\ e.step = "skipped" <=> (e.out_kind = "file" /\ ~force)
        /\ e.step # "skipped" => Invoked(e)

\* C4 (amended): a supported input is skipped exactly when its output path
\* exists, as a file or as a directory, and force is off; otherwise its
\* encoder is invoked.
C4_SkipPolicy ==
    \A e \in Entries : Decided(e) =>
        /\ e.step = "skipped" <=> (e.out_kind # "absent" /\ ~force)
        /\ e.step # "skipped" => Invoked(e)

C4_Witness ==
    \E e \in Entries : e.step = "skipped" /\ e.out_kind = "file" /\ e.run = 2

KindExtension(handler) ==
    CASE handler = "rgb" -> <<"j","p","g">>
      [] handler = "rgba" -> <<"p","n","g">>
      [] handler = "video" -> <<"m","p","4">>

\* The input's position under the root, re-rooted under the output
\* directory, with the extension of the handler's format.
Mirrored(e) ==
    LET rel == Key(e.input)
    IN  output_dir \o SubSeq(rel, 1, Len(rel) - 1)
        \o <<[stem |-> rel[Len(rel)].stem,
              ext |-> SomeExt(KindExtension(e.handler))]>>

\* C5: the output path of every processed input is the output root joined
\* with the input's path relative to the root, only the extension rewritten
\* to jpg, png or mp4 by kind; directories and stem are kept, for walked
\* and for explicitly listed inputs.
C5_OutputMirrors ==
    \A e \in Entries : Decided(e) => e.out = Mirrored(e)

C5_Witness ==
    /\ \E e \in Entries :
          /\ e.step = "encoded" /\ e.handler = "rgb"
          /\ e.input = <<CurDir, Sub, FileName("a", <<"J","P","G">>)>>
    /\ Len(explicit) > 0

\* C6: whenever a handler attempts its write of the output, every
\* intermediate directory of the output path exists by then.
C6_DirectoriesBeforeWrite ==
    \A e \in Entries : e.write_attempted => e.parent_ready

\* s spells the lower-case word c, each letter in either case.
SameLetters(s, c) ==
    /\ Len(s) = Len(c)
    /\ \A i \in DOMAIN s : s[i] = c[i] \/ s[i] = UpperChar(c[i])

ExpectedHandler(c) ==
    IF c \in {Jpg, Jpeg} THEN "rgb" ELSE IF c = Png THEN "rgba" ELSE "video"

\* C9: an extension that spells one of jpg, jpeg, png, mp4, mov, avi, mkv,
\* webm, wmv, flv in any letter case selects exactly the handler of its
\* kind, which is then skipped or invoked; any other extension, or none,
\* selects no handler, nothing is written and nothing fails.
C9_Classification ==
    \A e \in Entries : ReachedMatch(e) =>
        LET x == extension(e.input)
            canon == {c \in SupportedExtensions :
                         x.some /\ SameLetters(x.val, c)}
        IN  IF canon # {}
            THEN /\ \A c \in canon : e.handler = ExpectedHandler(c)
                 /\ e.step = "skipped" \/ Invoked(e)
            ELSE /\ e.handler = "none"
                 /\ e.step \in {"no_extension", "unsupported"}
                 /\ ~e.write_attempted
                 /\ ~e.wrote

C9_Witness ==
    /\ \E e \in Entries :
          /\ extension(e.input) = SomeExt(<<"W","e","B","m">>)
          /\ e.handler = "video" /\ e.step = "encoded"
    /\ pc = "done"

====
